---- MODULE Spec2Model ----
(***************************************************************************)
(* A model of app.py: the Telegram channel preview -> RSS converter.       *)
(*                                                                         *)
(* Strings are sequences of tokens (a token is an indivisible piece of     *)
(* text), so concatenation and f-string formatting are \o.  A tag is a     *)
(* record holding what the BeautifulSoup queries of the code return for    *)
(* it: find(...) of an absent node is None, an absent attribute is None.   *)
(* A call either returns a value or raises: Ret(v) or Raise(exc).          *)
(***************************************************************************)
EXTENDS Integers, Sequences, FiniteSets, TLC

VARIABLES pc, idx, files, files0, rss_content, events, call, arg, ret

vars == <<pc, idx, files, files0, rss_content, events, call, arg, ret>>
mainVars == <<pc, idx, files, files0, rss_content, events>>
callVars == <<call, arg, ret>>

(* ------------------------------ bounds --------------------------------- *)
NumChannels == 3
MaxClock == 2
MaxImages == 2
MaxContainers == 2
MaxStyleLen == 3

(* ----------------------- optional values, results ----------------------- *)
None == <<>>
Some(x) == <<x>>
IsNone(o) == Len(o) = 0
Get(o) == o[1]

Raise(e) == [raised |-> TRUE, exc |-> e]
Ret(v) == [raised |-> FALSE, val |-> v]

Min(S) == CHOOSE x \in S : \A y \in S : x <= y
Max(S) == CHOOSE x \in S : \A y \in S : x >= y

(* --------------------------- program constants -------------------------- *)
BASE_URL == <<"https://", "t.me/s/">>
TITLE_LENGTH == 80
HTTP_OK == 200
channels ==
  <<"exp_fest", "reliable_ml", "cgevent", "ai_newz", "denissezy",
    "NeuralShit", "dlinnlp", "opendatascience", "ScienceInquisition", "graphML">>

Whitespace == {" ", "\t", "\n"}

(* ------------------------------ str.strip ------------------------------- *)
RECURSIVE lstrip(_)
lstrip(s) == IF Len(s) > 0 /\ s[1] \in Whitespace THEN lstrip(Tail(s)) ELSE s

RECURSIVE rstrip(_)
rstrip(s) ==
  IF Len(s) > 0 /\ s[Len(s)] \in Whitespace THEN rstrip(SubSeq(s, 1, Len(s) - 1)) ELSE s

strip(s) == rstrip(lstrip(s))

(* ----------- re.search of the url pattern in image_style ---------------- *)
(* The start is the leftmost url-opening token that a closing token         *)
(* follows on the same line; the greedy group runs to the last such closing *)
(* token.  The result is group(1), or None when nothing matches.            *)
re_search_url(s) ==
  LET Ends(i) == {j \in (i + 1)..Len(s) :
                    s[j] = "')" /\ \A k \in (i + 1)..(j - 1) : s[k] # "\n"}
      Starts == {i \in 1..Len(s) : s[i] = "url('" /\ Ends(i) # {}}
  IN IF Starts = {} THEN None
     ELSE LET i == Min(Starts)
              j == Max(Ends(i))
          IN Some(SubSeq(s, i + 1, j - 1))

(* ------------------------------ parse_image ----------------------------- *)
parse_image(image) ==
  IF IsNone(image.style) THEN Raise("KeyError")
  ELSE LET image_link_match == re_search_url(Get(image.style))
       IN IF IsNone(image_link_match) THEN Ret(<<>>)
          ELSE Ret(<<"<img src=\"">> \o Get(image_link_match)
                   \o <<"\" referrerpolicy=\"no-referrer\">">>)

(* ------------------------------ parse_reply ----------------------------- *)
(* The layout whitespace of the f-string templates is left out of the       *)
(* tokens; the order of the pieces is the templates' order.                 *)
parse_reply_lenient(reply) ==
  IF IsNone(reply.href) THEN Raise("KeyError")
  ELSE Ret(<<"<div class=\"rsshub-quote\"><blockquote><p><a href=\"">>
           \o Get(reply.href) \o <<"\"><b>">>
           \o (IF IsNone(reply.author_name) THEN <<>> ELSE Get(reply.author_name))
           \o <<"</b>:</a></p><p>">>
           \o (IF IsNone(reply.reply_text) THEN <<>> ELSE Get(reply.reply_text))
           \o <<"</p></blockquote></div>">>)

parse_reply(reply) ==
  IF IsNone(reply.author_name) THEN Raise("AttributeError")
  ELSE IF IsNone(reply.reply_text) THEN Raise("AttributeError")
  ELSE IF IsNone(reply.href) THEN Raise("KeyError")
  ELSE Ret(<<"<div class=\"rsshub-quote\"><blockquote><p><a href=\"">>
           \o Get(reply.href) \o <<"\"><b>">> \o Get(reply.author_name)
           \o <<"</b>:</a></p><p>">> \o Get(reply.reply_text)
           \o <<"</p></blockquote></div>">>)

(* ----------------------------- parse_preview ---------------------------- *)
parse_preview(preview) ==
  IF IsNone(preview.site_name) THEN Raise("AttributeError")
  ELSE
    LET site_name == Get(preview.site_name)
        image_text == IF IsNone(preview.image) THEN Ret(<<>>)
                      ELSE parse_image(Get(preview.image))
    IN IF image_text.raised THEN image_text
       ELSE IF IsNone(preview.href) THEN Raise("KeyError")
       ELSE
         LET preview_title_text ==
               <<"<a href=\"">> \o Get(preview.href) \o <<"\">">>
               \o (IF IsNone(preview.title) THEN site_name ELSE Get(preview.title))
               \o <<"</a>">>
             preview_description_text ==
               IF IsNone(preview.description) THEN <<>>
               ELSE <<"<p>">> \o Get(preview.description) \o <<"</p>">>
         IN Ret(<<"<blockquote><b>">> \o site_name \o <<"</b><br><b>">>
                \o preview_title_text \o <<"</b><br>">>
                \o preview_description_text \o image_text.val
                \o <<"</blockquote>">>)

(* ------------------------------ parse_feed ------------------------------ *)
Ellipsis == <<"...">>

(* description seed: the nested text node's content, else the outer one's. *)
feed_description(text_content) ==
  IF IsNone(text_content) THEN <<>>
  ELSE IF IsNone(Get(text_content).inner) THEN Get(text_content).contents
  ELSE Get(Get(text_content).inner)

feed_title_truncated(text_content) ==
  IF IsNone(text_content) THEN Ellipsis
  ELSE IF IsNone(Get(text_content).b) THEN Ellipsis
  ELSE LET t == strip(Get(Get(text_content).b))
       IN IF Len(t) > TITLE_LENGTH THEN SubSeq(t, 1, TITLE_LENGTH) ELSE t

feed_title(text_content) ==
  IF IsNone(text_content) THEN Ellipsis
  ELSE IF IsNone(Get(text_content).b) THEN Ellipsis
  ELSE strip(Get(Get(text_content).b))

RECURSIVE feed_images(_, _)
feed_images(description, images) ==
  IF Len(images) = 0 THEN Ret(description)
  ELSE LET image_text == parse_image(Head(images))
       IN IF image_text.raised THEN image_text
          ELSE feed_images(description \o <<"\n">> \o image_text.val, Tail(images))

feed_reply_appended(description, reply) ==
  IF IsNone(reply) THEN Ret(description)
  ELSE LET reply_text == parse_reply(Get(reply))
       IN IF reply_text.raised THEN reply_text
          ELSE Ret(description \o <<"\n">> \o reply_text.val)

feed_reply(description, reply) ==
  IF IsNone(reply) THEN Ret(description)
  ELSE LET reply_text == parse_reply(Get(reply))
       IN IF reply_text.raised THEN reply_text
          ELSE Ret(reply_text.val \o <<"\n">> \o description)

VideoNotice ==
  <<"\n", "<p><b>The message contain video, for watch it please visit the channel.</b></p>">>

feed_video(description, video) ==
  IF video THEN description \o VideoNotice ELSE description

feed_preview(description, preview) ==
  IF IsNone(preview) THEN Ret(description)
  ELSE LET preview_text == parse_preview(Get(preview))
       IN IF preview_text.raised THEN preview_text
          ELSE Ret(description \o <<"\n">> \o preview_text.val)

feed_author_owner_first(feed_tag) ==
  IF IsNone(feed_tag.owner_name) THEN feed_tag.from_author ELSE feed_tag.owner_name

feed_author_no_fallback(feed_tag) == feed_tag.from_author

feed_author(feed_tag) ==
  IF IsNone(feed_tag.from_author) THEN feed_tag.owner_name ELSE feed_tag.from_author

parse_feed(feed_tag) ==
  LET text_content == feed_tag.text
      title == feed_title(text_content)
      d1 == feed_images(feed_description(text_content), feed_tag.images)
  IN IF d1.raised THEN d1
     ELSE
       LET d2 == feed_reply(d1.val, feed_tag.reply)
       IN IF d2.raised THEN d2
          ELSE
            LET d3 == feed_preview(feed_video(d2.val, feed_tag.video), feed_tag.preview)
                author == feed_author(feed_tag)
            IN IF d3.raised THEN d3
               ELSE IF IsNone(feed_tag.time) THEN Raise("TypeError")
               ELSE IF IsNone(Get(feed_tag.time).datetime) THEN Raise("KeyError")
               ELSE IF IsNone(feed_tag.date) THEN Raise("TypeError")
               ELSE IF IsNone(Get(feed_tag.date).href) THEN Raise("KeyError")
               ELSE IF IsNone(author) THEN Raise("AttributeError")
               ELSE Ret([title |-> title \o Ellipsis,
                         description |-> d3.val,
                         pub_date |-> Get(Get(feed_tag.time).datetime),
                         link |-> Get(Get(feed_tag.date).href),
                         author |-> Get(author)])

(* ------------------------------ parse_feeds ----------------------------- *)
RECURSIVE parse_feeds_from(_, _)
parse_feeds_from(feeds, tags) ==
  IF Len(tags) = 0 THEN Ret(feeds)
  ELSE LET feed == parse_feed(Head(tags))
       IN IF feed.raised THEN feed
          ELSE parse_feeds_from(Append(feeds, feed.val), Tail(tags))

RECURSIVE parse_feeds_prepending(_, _)
parse_feeds_prepending(feeds, tags) ==
  IF Len(tags) = 0 THEN Ret(feeds)
  ELSE LET feed == parse_feed(Head(tags))
       IN IF feed.raised THEN feed
          ELSE parse_feeds_prepending(<<feed.val>> \o feeds, Tail(tags))

parse_feeds_reversed(soup) == parse_feeds_prepending(<<>>, soup.messages)

parse_feeds(soup) == parse_feeds_from(<<>>, soup.messages)

(* ------------------------------- parse_rss ------------------------------ *)
str_replace(url) ==
  [i \in 1..Len(url) |-> IF url[i] = "t.me/s/" THEN "t.me/" ELSE url[i]]

meta_content(meta) ==
  IF IsNone(meta) THEN Raise("TypeError")
  ELSE IF IsNone(Get(meta).content) THEN Raise("KeyError")
  ELSE Ret(Get(Get(meta).content))

parse_rss(soup, url, feeds, now) ==
  LET title == meta_content(soup.og_title)
      description == meta_content(soup.og_description)
  IN IF title.raised THEN title
     ELSE IF description.raised THEN description
     ELSE Ret([title |-> title.val,
               description |-> description.val,
               link |-> str_replace(url),
               last_build_date |-> <<"%a, %d %b %Y %H:%M:%S %z", now>>,
               feeds |-> feeds])

(* The template rss.j2 applied to rss: the document is a function of rss.  *)
render_rss(rss) == [template |-> "rss.j2", rss |-> rss]

(* ---------------------- get_channel_content, get_rss_feed --------------- *)
(* A page's text is held as the tree parse_content makes of it, so the      *)
(* response text is the soup.                                               *)
urljoin(base, channel) == base \o <<channel>>

get_channel_content(response) ==
  IF response.status # HTTP_OK THEN Raise("RuntimeError") ELSE Ret(response.text)

get_rss_feed(channel, response, now) ==
  LET url == urljoin(BASE_URL, channel)
      channel_content == get_channel_content(response)
  IN IF channel_content.raised THEN channel_content
     ELSE
       LET soup == channel_content.val
           feeds == parse_feeds(soup)
       IN IF feeds.raised THEN feeds
          ELSE LET rss == parse_rss(soup, url, feeds.val, now)
               IN IF rss.raised THEN rss ELSE Ret(render_rss(rss.val))

(* ------------------------------ input tags ------------------------------ *)
SeqsUpTo(S, n) == UNION {[1..k -> S] : k \in 0..n}

StyleTokens == {"url('", "')", "https://x/y.jpg", "\n"}
Styles == SeqsUpTo(StyleTokens, MaxStyleLen)
AnyImages == {[style |-> None]} \cup {[style |-> Some(st)] : st \in Styles}

MatchingStyle == <<"background-image:", "url('", "https://x/y.jpg", "')">>
ImageTags ==
  {[style |-> None], [style |-> Some(<<"width:100%">>)], [style |-> Some(MatchingStyle)]}

LongText == [i \in 1..(TITLE_LENGTH + 1) |-> "a"]
BoldTexts ==
  {<<>>, <<" ", "\t">>, <<"Breaking News">>, <<" ", "Breaking News", "\n">>,
   <<"a", " ", "b", " ">>, LongText}
TextNodes ==
  {None} \cup
  {Some([contents |-> <<"outer text">>, inner |-> i, b |-> b]) :
     i \in {None, Some(<<"inner text">>)},
     b \in {None} \cup {Some(t) : t \in BoldTexts}}
FewTextNodes ==
  {None,
   Some([contents |-> <<"outer text">>, inner |-> None, b |-> None]),
   Some([contents |-> <<"outer text">>, inner |-> Some(<<"inner text">>),
         b |-> Some(<<" ", "Breaking News", "\n">>)])}

ReplyTags ==
  [author_name : {None, Some(<<"Ann">>)},
   reply_text : {None, Some(<<"quoted">>)},
   href : {None, Some(<<"https://t.me/c/1">>)}]
GoodReply ==
  [author_name |-> Some(<<"Ann">>), reply_text |-> Some(<<"quoted">>),
   href |-> Some(<<"https://t.me/c/1">>)]
FewReplies ==
  {None, Some(GoodReply),
   Some([GoodReply EXCEPT !.author_name = None]),
   Some([GoodReply EXCEPT !.reply_text = None]),
   Some([GoodReply EXCEPT !.href = None])}

PreviewTags ==
  [site_name : {None, Some(<<"Site">>)},
   image : {None} \cup {Some(i) : i \in ImageTags},
   title : {None, Some(<<"Preview title">>)},
   description : {None, Some(<<"Preview description">>)},
   href : {None, Some(<<"https://site/">>)}]
FullPreview ==
  [site_name |-> Some(<<"Site">>), image |-> Some([style |-> Some(MatchingStyle)]),
   title |-> Some(<<"Preview title">>),
   description |-> Some(<<"Preview description">>), href |-> Some(<<"https://site/">>)]
BarePreview ==
  [site_name |-> Some(<<"Site">>), image |-> None, title |-> None,
   description |-> None, href |-> Some(<<"https://site/">>)]
FewPreviews ==
  {None, Some(FullPreview), Some(BarePreview),
   Some([FullPreview EXCEPT !.site_name = None]),
   Some([FullPreview EXCEPT !.image = Some([style |-> None])]),
   Some([BarePreview EXCEPT !.href = None])}

TimeTags == {None, Some([datetime |-> None]), Some([datetime |-> Some(<<"2024-01-01T00:00:00+00:00">>)])}
DateTags == {None, Some([href |-> None]), Some([href |-> Some(<<"https://t.me/c/2">>)])}
GoodTime == Some([datetime |-> Some(<<"2024-01-01T00:00:00+00:00">>)])
GoodDate == Some([href |-> Some(<<"https://t.me/c/2">>)])
FromAuthors == {None, Some(<<"Forwarded Bob">>)}
OwnerNames == {None, Some(<<"Channel Owner">>)}

(* A plain post container; the sets below vary it.                          *)
PlainPost ==
  [text |-> Some([contents |-> <<"outer text">>, inner |-> None, b |-> None]),
   images |-> <<>>, reply |-> None, video |-> FALSE, preview |-> None,
   from_author |-> None, owner_name |-> Some(<<"Channel Owner">>),
   time |-> GoodTime, date |-> GoodDate]

(* Every combination of the optional fragments, the required nodes present. *)
FragmentCases ==
  [text : FewTextNodes, images : SeqsUpTo(ImageTags, MaxImages), reply : FewReplies,
   video : BOOLEAN, preview : FewPreviews, from_author : FromAuthors,
   owner_name : {Some(<<"Channel Owner">>)}, time : {GoodTime}, date : {GoodDate}]
(* Every combination of the required nodes and attributes.                  *)
RequiredCases ==
  [text : {PlainPost.text}, images : {<<>>, <<[style |-> Some(MatchingStyle)]>>},
   reply : {None, Some(GoodReply)}, video : {FALSE}, preview : {None},
   from_author : FromAuthors, owner_name : OwnerNames, time : TimeTags, date : DateTags]
(* Every text node.                                                         *)
TitleCases ==
  [text : TextNodes, images : {<<>>}, reply : {None, Some(GoodReply)}, video : {FALSE},
   preview : {None}, from_author : {None}, owner_name : {Some(<<"Channel Owner">>)},
   time : {GoodTime}, date : {GoodDate}]
FeedTags == FragmentCases \cup RequiredCases \cup TitleCases

(* ------------------------------- pages ---------------------------------- *)
PageMessages ==
  {PlainPost,
   [PlainPost EXCEPT !.reply = Some(GoodReply), !.video = TRUE,
                     !.from_author = Some(<<"Forwarded Bob">>)],
   [PlainPost EXCEPT !.time = None],
   [PlainPost EXCEPT !.date = Some([href |-> None])],
   [PlainPost EXCEPT !.reply = Some([GoodReply EXCEPT !.author_name = None])]}
MetaTags == {None, Some([content |-> None]), Some([content |-> Some(<<"meta">>)])}
Soups ==
  [og_title : MetaTags, og_description : MetaTags,
   messages : SeqsUpTo(PageMessages, MaxContainers)]
GoodMeta == Some([content |-> Some(<<"meta">>)])
Statuses == {HTTP_OK, 404}
Responses == [status : Statuses, text : Soups]
Clock == 1..MaxClock

(* The pages the batch run is offered: a few of Soups.                      *)
MainSoups ==
  {[og_title |-> GoodMeta, og_description |-> GoodMeta, messages |-> <<>>],
   [og_title |-> GoodMeta, og_description |-> GoodMeta, messages |-> <<PlainPost>>],
   [og_title |-> None, og_description |-> GoodMeta, messages |-> <<PlainPost>>],
   [og_title |-> GoodMeta, og_description |-> GoodMeta,
    messages |-> <<PlainPost, [PlainPost EXCEPT !.time = None]>>]}
MainResponses ==
  [status : {HTTP_OK}, text : MainSoups]
    \cup {[status |-> 404, text |-> CHOOSE sp \in MainSoups : sp.messages = <<>>]}

(* ------------------------------ main ------------------------------------ *)
ChannelList == SubSeq(channels, 1, NumChannels)
NoFile == [exists |-> FALSE, data |-> <<>>]
(* What an earlier successful run left: a document rendered at time 0.      *)
PriorFile ==
  [exists |-> TRUE,
   data |-> <<render_rss([title |-> <<"meta">>, description |-> <<"meta">>,
                         link |-> str_replace(urljoin(BASE_URL, "prior")),
                         last_build_date |-> <<"%a, %d %b %Y %H:%M:%S %z", 0>>,
                         feeds |-> <<>>])>>]
Event(e, ch, doc) == [ev |-> e, ch |-> ch, doc |-> doc]

Init ==
  /\ pc = "for"
  /\ idx = 1
  /\ files0 \in [1..NumChannels -> {NoFile, PriorFile}]
  /\ files = files0
  /\ rss_content = None
  /\ events = <<>>
  /\ call = "none" /\ arg = <<>> /\ ret = <<>>

RequestOpeningFile ==
  /\ pc = "for"
  /\ pc' = "await"
  /\ files' = [files EXCEPT ![idx] = [exists |-> TRUE, data |-> <<>>]]
  /\ events' = Append(events, Event("fetch", idx, None))
  /\ UNCHANGED <<idx, files0, rss_content, callVars>>

(* line 233, up to the await of the response *)
Request ==
  /\ pc = "for"
  /\ pc' = "await"
  /\ events' = Append(events, Event("fetch", idx, None))
  /\ UNCHANGED <<idx, files, files0, rss_content, callVars>>

(* line 233, from the response on: get_rss_feed returns or raises, and a    *)
(* raise leaves main, since nothing catches it.                             *)
AwaitedIsolated(r) ==
  IF r.raised
  THEN /\ pc' = IF idx = NumChannels THEN "done" ELSE "for"
       /\ idx' = idx + 1
       /\ events' = Append(events, Event("raise", idx, None))
       /\ UNCHANGED rss_content
  ELSE /\ pc' = "with"
       /\ rss_content' = Some(r.val)
       /\ events' = Append(events, Event("render", idx, Some(r.val)))
       /\ UNCHANGED idx

Awaited(r) ==
  IF r.raised
  THEN /\ pc' = "raised"
       /\ events' = Append(events, Event("raise", idx, None))
       /\ UNCHANGED <<idx, rss_content>>
  ELSE /\ pc' = "with"
       /\ rss_content' = Some(r.val)
       /\ events' = Append(events, Event("render", idx, Some(r.val)))
       /\ UNCHANGED idx

Respond ==
  /\ pc = "await"
  /\ \E response \in MainResponses, now \in Clock :
       Awaited(get_rss_feed(ChannelList[idx], response, now))
  /\ UNCHANGED <<files, files0, callVars>>

(* lines 235-237: open for writing, write, truncate, close; then the next   *)
(* channel, or the end of the list.                                         *)
WriteFile ==
  /\ pc = "with"
  /\ files' = [files EXCEPT ![idx] = [exists |-> TRUE, data |-> rss_content]]
  /\ events' = Append(events, Event("write", idx, rss_content))
  /\ idx' = idx + 1
  /\ pc' = IF idx = NumChannels THEN "done" ELSE "for"
  /\ UNCHANGED <<files0, rss_content, callVars>>

Next == Request \/ Respond \/ WriteFile

Spec == Init /\ [][Next]_vars

(* --------------------- the functions, called alone ---------------------- *)
InitCall ==
  /\ pc = "call"
  /\ idx = 1
  /\ files0 = [c \in 1..NumChannels |-> NoFile]
  /\ files = files0
  /\ rss_content = None
  /\ events = <<>>
  /\ call = "none" /\ arg = <<>> /\ ret = <<>>

Called(name, a, r) ==
  /\ call' = name
  /\ arg' = a
  /\ ret' = r

CallParseImage ==
  /\ call = "none"
  /\ \E image \in AnyImages : Called("parse_image", image, parse_image(image))
  /\ UNCHANGED mainVars

CallParseReply ==
  /\ call = "none"
  /\ \E reply \in ReplyTags : Called("parse_reply", reply, parse_reply(reply))
  /\ UNCHANGED mainVars

CallParsePreview ==
  /\ call = "none"
  /\ \E preview \in PreviewTags : Called("parse_preview", preview, parse_preview(preview))
  /\ UNCHANGED mainVars

CallParseFeed ==
  /\ call = "none"
  /\ \E feed_tag \in FeedTags : Called("parse_feed", feed_tag, parse_feed(feed_tag))
  /\ UNCHANGED mainVars

CallParseFeeds ==
  /\ call = "none"
  /\ \E soup \in Soups : Called("parse_feeds", soup, parse_feeds(soup))
  /\ UNCHANGED mainVars

CallParseRss ==
  /\ call = "none"
  /\ \E soup \in Soups, now \in Clock :
       Called("parse_rss",
              [soup |-> soup, url |-> urljoin(BASE_URL, ChannelList[1]),
               feeds |-> <<>>, now |-> now],
              parse_rss(soup, urljoin(BASE_URL, ChannelList[1]), <<>>, now))
  /\ UNCHANGED mainVars

CallGetRssFeed ==
  /\ call = "none"
  /\ \E response \in Responses, now \in Clock :
       Called("get_rss_feed",
              [channel |-> ChannelList[1], response |-> response, now |-> now],
              get_rss_feed(ChannelList[1], response, now))
  /\ UNCHANGED mainVars

NextCall ==
  \/ CallParseImage
  \/ CallParseReply
  \/ CallParsePreview
  \/ CallParseFeed
  \/ CallParseFeeds
  \/ CallParseRss
  \/ CallGetRssFeed

SpecCall == InitCall /\ [][NextCall]_vars

(* ======================= properties: the functions ====================== *)
HasTimeAndLink(feed_tag) ==
  /\ ~IsNone(feed_tag.time) /\ ~IsNone(Get(feed_tag.time).datetime)
  /\ ~IsNone(feed_tag.date) /\ ~IsNone(Get(feed_tag.date).href)
HasAuthor(feed_tag) == ~IsNone(feed_tag.from_author) \/ ~IsNone(feed_tag.owner_name)
(* A fragment that is present and whose own extractor raises.               *)
FragmentRaises(feed_tag) ==
  \/ \E i \in 1..Len(feed_tag.images) : parse_image(feed_tag.images[i]).raised
  \/ ~IsNone(feed_tag.reply) /\ parse_reply(Get(feed_tag.reply)).raised
  \/ ~IsNone(feed_tag.preview) /\ parse_preview(Get(feed_tag.preview)).raised
ReplyLacksSubNode(feed_tag) ==
  /\ ~IsNone(feed_tag.reply)
  /\ IsNone(Get(feed_tag.reply).author_name) \/ IsNone(Get(feed_tag.reply).reply_text)

(* The parts of a body, each empty when its source node is absent.          *)
ReplyPart(feed_tag) ==
  IF IsNone(feed_tag.reply) THEN <<>>
  ELSE parse_reply(Get(feed_tag.reply)).val \o <<"\n">>
TextPart(feed_tag) ==
  IF IsNone(feed_tag.text) THEN <<>>
  ELSE IF IsNone(Get(feed_tag.text).inner) THEN Get(feed_tag.text).contents
  ELSE Get(Get(feed_tag.text).inner)
RECURSIVE ImageParts(_, _)
ImageParts(feed_tag, n) ==
  IF n = 0 THEN <<>>
  ELSE ImageParts(feed_tag, n - 1) \o <<"\n">> \o parse_image(feed_tag.images[n]).val
VideoPart(feed_tag) == IF feed_tag.video THEN VideoNotice ELSE <<>>
PreviewPart(feed_tag) ==
  IF IsNone(feed_tag.preview) THEN <<>>
  ELSE <<"\n">> \o parse_preview(Get(feed_tag.preview)).val

(* C1: a container that lacks the time node's datetime or the date anchor's *)
(* href makes parse_feed emit a skip and not raise, and parse_feeds leaves  *)
(* it out of the post list and goes on with the other containers.           *)
C1_SkipsContainerWithoutTimeOrLink ==
  /\ (call = "parse_feed" /\ ~HasTimeAndLink(arg) /\ HasAuthor(arg) /\ ~FragmentRaises(arg))
       => ~ret.raised
  /\ (call = "parse_feeds"
        /\ \A i \in 1..Len(arg.messages) : ~ReplyLacksSubNode(arg.messages[i]))
       => /\ ~ret.raised
          /\ Len(ret.val) = Cardinality({i \in 1..Len(arg.messages) :
                                           HasTimeAndLink(arg.messages[i])})

(* C4: the body is the reply block, then the primary text with one image    *)
(* fragment per photo-wrap anchor in document order, then the video notice, *)
(* then the link preview, each at most once.                                *)
C4_BodyOrderFixed ==
  (call = "parse_feed" /\ ~ret.raised) =>
    ret.val.description =
      ReplyPart(arg) \o TextPart(arg) \o ImageParts(arg, Len(arg.images))
        \o VideoPart(arg) \o PreviewPart(arg)

C4_AllFragmentsPresent ==
  /\ call = "parse_feed" /\ ~ret.raised
  /\ ~IsNone(arg.text) /\ ~IsNone(arg.reply) /\ ~IsNone(arg.preview) /\ arg.video
  /\ Len(arg.images) = 2 /\ arg.images[1] # arg.images[2]
  /\ \A i \in 1..2 : ~IsNone(arg.images[i].style)

(* t is s without its leading and trailing whitespace.                      *)
IsTrimOf(t, s) ==
  \E i \in 0..Len(s), j \in 0..Len(s) :
    /\ i + j <= Len(s)
    /\ \A k \in 1..i : s[k] \in Whitespace
    /\ \A k \in (Len(s) - j + 1)..Len(s) : s[k] \in Whitespace
    /\ t = SubSeq(s, i + 1, Len(s) - j)
    /\ Len(t) > 0 => (t[1] \notin Whitespace /\ t[Len(t)] \notin Whitespace)

(* C5: the title is the trimmed text of the first bold run of the primary   *)
(* text node, or the placeholder when the node or the bold run is absent,   *)
(* followed by one ellipsis; it is never shortened.                         *)
C5_TitleBoldOrPlaceholder ==
  (call = "parse_feed" /\ ~ret.raised) =>
    LET title == ret.val.title
        chosen == SubSeq(title, 1, Len(title) - 1)
    IN /\ Len(title) >= 1 /\ title[Len(title)] = "..."
       /\ IF ~IsNone(arg.text) /\ ~IsNone(Get(arg.text).b)
          THEN IsTrimOf(chosen, Get(Get(arg.text).b))
          ELSE title = <<"...", "...">>

C5_LongBoldTitle ==
  /\ call = "parse_feed" /\ ~ret.raised
  /\ ~IsNone(arg.text) /\ ~IsNone(Get(arg.text).b)
  /\ Len(Get(Get(arg.text).b)) > TITLE_LENGTH
  /\ Len(ret.val.title) = Len(Get(Get(arg.text).b)) + 1

(* st holds a url-opening token and, later on the same line, a closing one. *)
HasUrlPattern(st) ==
  \E i \in 1..Len(st), j \in 1..Len(st) :
    i < j /\ st[i] = "url('" /\ st[j] = "')" /\ \A k \in (i + 1)..(j - 1) : st[k] # "\n"
(* C6: parse_image never raises, on any node: it returns the empty string when the  *)
(* style holds no url pattern or is missing, and otherwise the img tag of   *)
(* the url between the quotes.                                              *)
C6_ParseImageNeverRaises ==
  call = "parse_image" =>
    /\ ~ret.raised
    /\ IF ~IsNone(arg.style) /\ HasUrlPattern(Get(arg.style))
       THEN /\ Len(ret.val) >= 2
            /\ ret.val[1] = "<img src=\""
            /\ ret.val[Len(ret.val)] = "\" referrerpolicy=\"no-referrer\">"
       ELSE ret.val = <<>>

(* C7: the post sequence of a feed holds one Post per container that is not *)
(* skipped, in document order; a page without containers gives a feed with  *)
(* an empty post sequence.                                                  *)
C7_PostsInDocumentOrder ==
  /\ (call = "get_rss_feed" /\ ~ret.raised) =>
       LET kept == SelectSeq(arg.response.text.messages, HasTimeAndLink)
           feeds == ret.val.rss.feeds
       IN /\ Len(feeds) = Len(kept)
          /\ \A i \in 1..Len(kept) :
               ~parse_feed(kept[i]).raised /\ feeds[i] = parse_feed(kept[i]).val
  /\ (call = "get_rss_feed" /\ arg.response.status = HTTP_OK
        /\ arg.response.text.messages = <<>>
        /\ arg.response.text.og_title = GoodMeta
        /\ arg.response.text.og_description = GoodMeta)
       => (~ret.raised /\ ret.val.rss.feeds = <<>>)

C7_TwoDistinctPosts ==
  /\ call = "get_rss_feed" /\ ~ret.raised
  /\ Len(ret.val.rss.feeds) = 2
  /\ ret.val.rss.feeds[1] # ret.val.rss.feeds[2]
  /\ ret.val.rss.feeds[1].author = <<"Channel Owner">>

(* C8: the author is the text of the forwarded-from span when the container *)
(* has one, and the text of the owner-name anchor only when it has none.    *)
C8_AuthorPrefersForwarded ==
  (call = "parse_feed" /\ ~ret.raised) =>
    /\ ~IsNone(arg.from_author) => ret.val.author = Get(arg.from_author)
    /\ IsNone(arg.from_author) =>
         (~IsNone(arg.owner_name) /\ ret.val.author = Get(arg.owner_name))

C8_BothAuthorsPresent ==
  /\ call = "parse_feed" /\ ~ret.raised
  /\ ~IsNone(arg.from_author) /\ ~IsNone(arg.owner_name)
  /\ Get(arg.from_author) # Get(arg.owner_name)

(* C9: with the time node, the date anchor and an author node present, the  *)
(* absence of any optional fragment never makes parse_feed raise: it raises *)
(* only when the extractor of a fragment that is present raises; an absent  *)
(* fragment adds nothing to the body, an absent text node gives the empty   *)
(* seed and an absent bold run the placeholder title.                       *)
C9_AbsentFragmentsNeverRaise ==
  (call = "parse_feed" /\ HasTimeAndLink(arg) /\ HasAuthor(arg)) =>
    /\ ret.raised <=> FragmentRaises(arg)
    /\ ~ret.raised =>
         /\ (IsNone(arg.text) /\ arg.images = <<>> /\ IsNone(arg.reply)
               /\ ~arg.video /\ IsNone(arg.preview)) => ret.val.description = <<>>
         /\ (IsNone(arg.text) /\ IsNone(arg.reply)) =>
              ret.val.description =
                ImageParts(arg, Len(arg.images)) \o VideoPart(arg) \o PreviewPart(arg)
         /\ (arg.images = <<>> /\ ~arg.video /\ IsNone(arg.preview)) =>
              ret.val.description = ReplyPart(arg) \o TextPart(arg)
         /\ (IsNone(arg.text) \/ IsNone(Get(arg.text).b)) =>
              ret.val.title = <<"...", "...">>

C9_EverythingOptionalAbsent ==
  /\ call = "parse_feed" /\ ~ret.raised
  /\ IsNone(arg.text) /\ arg.images = <<>> /\ IsNone(arg.reply)
  /\ ~arg.video /\ IsNone(arg.preview) /\ IsNone(arg.from_author)
  /\ ret.val.description = <<>>

(* C10: a reply widget without its author-name span or its reply-text div   *)
(* makes parse_reply fail and gives no Post; a page without the og:title or *)
(* og:description meta tag makes parse_rss fail; get_rss_feed then returns  *)
(* no document.                                                             *)
C10_RequiredElementsFailHard ==
  /\ (call = "parse_reply" /\ (IsNone(arg.author_name) \/ IsNone(arg.reply_text)))
       => ret.raised
  /\ (call = "parse_feed" /\ ReplyLacksSubNode(arg)) => ret.raised
  /\ (call = "parse_rss" /\ (IsNone(arg.soup.og_title) \/ IsNone(arg.soup.og_description)))
       => ret.raised
  /\ (call = "get_rss_feed"
        /\ \/ IsNone(arg.response.text.og_title)
           \/ IsNone(arg.response.text.og_description)
           \/ \E i \in 1..Len(arg.response.text.messages) :
                ReplyLacksSubNode(arg.response.text.messages[i]))
       => ret.raised

C10_ReplyWithoutAuthorFailsChannel ==
  /\ call = "get_rss_feed" /\ ret.raised
  /\ arg.response.status = HTTP_OK
  /\ arg.response.text.og_title = GoodMeta /\ arg.response.text.og_description = GoodMeta
  /\ Len(arg.response.text.messages) = 1
  /\ ReplyLacksSubNode(arg.response.text.messages[1])
  /\ HasTimeAndLink(arg.response.text.messages[1])

(* ======================== properties: the batch run ===================== *)
Happened(e, ch) == \E p \in 1..Len(events) : events[p].ev = e /\ events[p].ch = ch
WrittenChannels == {c \in 1..NumChannels : Happened("write", c)}

(* C2: the channels are processed one after the other in list order, each   *)
(* fetched only after the one before it was written; a failure ends the     *)
(* batch, so nothing happens after it and no later channel is fetched or    *)
(* written; the channels written so far are always a prefix of the list.    *)
C2_SequentialAbortOnFailure ==
  /\ \A p \in 1..Len(events), q \in 1..Len(events) :
       p < q => events[p].ch <= events[q].ch
  /\ \A q \in 1..Len(events) :
       (events[q].ev = "fetch" /\ events[q].ch > 1) =>
         \E p \in 1..(q - 1) : events[p].ev = "write" /\ events[p].ch = events[q].ch - 1
  /\ \A q \in 1..Len(events) :
       events[q].ev = "write" =>
         \E o \in 1..(q - 1), p \in 1..(q - 1) :
           /\ o < p
           /\ events[o].ev = "fetch" /\ events[o].ch = events[q].ch
           /\ events[p].ev = "render" /\ events[p].ch = events[q].ch
  /\ \A p \in 1..Len(events) : events[p].ev = "raise" => p = Len(events)
  /\ \E k \in 0..NumChannels : WrittenChannels = 1..k
  /\ \A c \in 1..NumChannels : c \notin WrittenChannels => files[c] = files0[c]

C2_FailureAfterAWrite ==
  /\ pc = "raised" /\ idx = 2 /\ idx < NumChannels
  /\ Happened("write", 1) /\ Happened("raise", 2)
  /\ ~Happened("fetch", 3)

====
